---------------------------- MODULE Spec2Model ----------------------------
(***************************************************************************)
(* Model of the /today Slack command handler (slack-todoist).              *)
(*                                                                         *)
(* Strings of the program are TLA+ strings.  A SHA-256 HMAC is symbolic:   *)
(* the digest of (key, message) is the pair itself, so two digests are     *)
(* equal exactly when key and message are equal, and no literal string     *)
(* equals a digest.  A string that may hold a hex digest is the record     *)
(* [lit, mac]: the literal characters followed by the 64 hex characters    *)
(* of the digest mac (<< >> when there is none).                           *)
(* The non-ASCII characters of the message templates are transliterated    *)
(* and the backquote is written as a quote.                                *)
(***************************************************************************)
EXTENDS Integers, Sequences, FiniteSets, TLC

VARIABLES
    pc,         \* position of the handler: idle, awaitProjects, awaitBoth, done, crashed
    env,        \* process.env: a function over the configured variable names
    event,      \* the APIGatewayProxyEventV2 of the invocation (<< >> before it)
    now,        \* Date.now() read by verifySlackSignature, in ms (0 when not read)
    response,   \* << >> or <<r>>: the result the handler returned
    issued,     \* outbound requests in the order they were issued
    inflight,   \* endpoints whose request has not completed yet
    results,    \* values the completed fetch promises resolved to
    failed,     \* endpoints whose request failed
    data,       \* input of formatTasksForSlack (pure-function specification)
    slack,      \* << >> or <<its result>>
    duration,   \* input of formatDuration (pure-function specification)
    rendered,   \* << >> or <<its result>>
    taskIn,     \* input of formatActiveTask (pure-function specification)
    taskLine,   \* << >> or <<its result>>
    emojiLine,  \* << >> or <<the task's line in the emoji variant of today.ts>>
    calls       \* the calls of verifySlackSignature made so far, with their results

vars == <<pc, env, event, now, response, issued, inflight, results, failed,
          data, slack, duration, rendered, taskIn, taskLine,
          emojiLine, calls>>
pureVars == <<data, slack, duration, rendered, taskIn, taskLine,
          emojiLine, calls>>
handlerVars == <<pc, env, event, now, response, issued, inflight, results, failed>>

---------------------------------------------------------------------------
(* Constants of the program *)

ALLOWED_USER_IDS == {"U6AHGJPPZ"}
SIGNATURE_MAX_AGE_SECONDS == 300
HEX_DIGEST_LENGTH == 64
MS_PER_SECOND == 1000

(* Bounds of the model *)

MaxTimestampLen == 3

---------------------------------------------------------------------------
(* Strings *)

Char(s, i) == SubSeq(s, i, i)

RECURSIVE Repeat(_, _)
Repeat(c, n) == IF n = 0 THEN "" ELSE c \o Repeat(c, n - 1)

\* first index >= i at which character c occurs in s, 0 when there is none
RECURSIVE IndexOf(_, _, _)
IndexOf(s, c, i) ==
    IF i > Len(s) THEN 0
    ELSE IF Char(s, i) = c THEN i
    ELSE IndexOf(s, c, i + 1)

RECURSIVE Split(_, _)
Split(s, c) ==
    LET k == IndexOf(s, c, 1)
    IN  IF k = 0 THEN <<s>>
        ELSE <<SubSeq(s, 1, k - 1)>> \o Split(SubSeq(s, k + 1, Len(s)), c)

\* the strings over alphabet of length at most n
RECURSIVE StringsUpTo(_, _)
StringsUpTo(alphabet, n) ==
    IF n = 0 THEN {""}
    ELSE {""} \cup {c \o s : c \in alphabet, s \in StringsUpTo(alphabet, n - 1)}

\* a string possibly ending in a hex digest
Str(lit, mac) == [lit |-> lit, mac |-> mac]
Plain(lit) == Str(lit, << >>)
ByteLength(x) == Len(x.lit) + (IF x.mac = << >> THEN 0 ELSE HEX_DIGEST_LENGTH)

\* createHmac('sha256', key).update(msg).digest('hex')
createHmac(key, msg) == <<key, msg>>

---------------------------------------------------------------------------
(* parseInt(timestamp, 10) *)

NaN == [nan |-> TRUE, val |-> 0]
Num(v) == [nan |-> FALSE, val |-> v]

IsDigit(c) == c \in {"0", "1", "2", "3", "4", "5", "6", "7", "8", "9"}

DigitVal(c) ==
    CASE c = "0" -> 0 [] c = "1" -> 1 [] c = "2" -> 2 [] c = "3" -> 3
      [] c = "4" -> 4 [] c = "5" -> 5 [] c = "6" -> 6 [] c = "7" -> 7
      [] c = "8" -> 8 [] c = "9" -> 9

RECURSIVE SkipWhitespace(_, _)
SkipWhitespace(s, i) ==
    IF i <= Len(s) /\ Char(s, i) = " " THEN SkipWhitespace(s, i + 1) ELSE i

\* one past the last digit of the run of digits starting at i
RECURSIVE DigitsEnd(_, _)
DigitsEnd(s, i) ==
    IF i <= Len(s) /\ IsDigit(Char(s, i)) THEN DigitsEnd(s, i + 1) ELSE i

RECURSIVE DigitsValue(_, _, _)
DigitsValue(s, i, j) ==
    IF j < i THEN 0 ELSE DigitsValue(s, i, j - 1) * 10 + DigitVal(Char(s, j))

parseInt(s) ==
    LET i0 == SkipWhitespace(s, 1)
        signed == i0 <= Len(s) /\ Char(s, i0) \in {"-", "+"}
        i1 == IF signed THEN i0 + 1 ELSE i0
        i2 == DigitsEnd(s, i1)
        magnitude == DigitsValue(s, i1, i2 - 1)
    IN  IF i2 = i1 THEN NaN
        ELSE IF signed /\ Char(s, i0) = "-" THEN Num(0 - magnitude)
        ELSE Num(magnitude)

\* a < b on JavaScript numbers: false when a is NaN
LessThan(a, b) == ~a.nan /\ a.val < b

---------------------------------------------------------------------------
(* verifySlackSignature *)

Returned(v) == [threw |-> FALSE, value |-> v]
Thrown == [threw |-> TRUE, value |-> FALSE]

\* timingSafeEqual with the contents left out of the comparison
timingSafeEqualLengthOnly(a, b) ==
    IF ByteLength(a) # ByteLength(b) THEN Thrown ELSE Returned(TRUE)

\* crypto.timingSafeEqual: RangeError when the byte lengths differ
timingSafeEqual(a, b) ==
    IF ByteLength(a) # ByteLength(b) THEN Thrown ELSE Returned(a = b)

\* IsStale with the maximum age subtracted from the clock in milliseconds
IsStaleMaxAgeInMs(timestamp, nowMs) ==
    LET timestampSeconds == parseInt(timestamp)
        cutoffTime == (nowMs \div MS_PER_SECOND)
                          - SIGNATURE_MAX_AGE_SECONDS * MS_PER_SECOND
    IN  LessThan(timestampSeconds, cutoffTime)

\* IsStale taking a timestamp of exactly the maximum age for stale
IsStaleAtMaxAge(timestamp, nowMs) ==
    LET timestampSeconds == parseInt(timestamp)
        cutoffTime == (nowMs \div MS_PER_SECOND) - SIGNATURE_MAX_AGE_SECONDS
    IN  ~timestampSeconds.nan /\ timestampSeconds.val <= cutoffTime

\* IsStale with the clock compared to the millisecond, not floored to seconds
IsStaleToTheMillisecond(timestamp, nowMs) ==
    LET timestampSeconds == parseInt(timestamp)
        cutoffMs == nowMs - SIGNATURE_MAX_AGE_SECONDS * MS_PER_SECOND
    IN  ~timestampSeconds.nan /\ timestampSeconds.val * MS_PER_SECOND < cutoffMs

IsStale(timestamp, nowMs) ==
    LET timestampSeconds == parseInt(timestamp)
        cutoffTime == (nowMs \div MS_PER_SECOND) - SIGNATURE_MAX_AGE_SECONDS
    IN  LessThan(timestampSeconds, cutoffTime)

baseString(timestamp, body) == "v0:" \o timestamp \o ":" \o body

expectedSignature(signingSecret, timestamp, body) ==
    Str("v0=", createHmac(signingSecret, baseString(timestamp, body)))

verifySlackSignature(signingSecret, signature, timestamp, body, nowMs) ==
    IF IsStale(timestamp, nowMs) THEN Returned(FALSE)
    ELSE timingSafeEqual(expectedSignature(signingSecret, timestamp, body), signature)

---------------------------------------------------------------------------
(* Tasks.  A due datetime or a completion time is the instant it denotes,  *)
(* in seconds since the epoch; an optional field is << >> or <<value>>.    *)

MAX_SAFE_INTEGER == 2147483647   \* stands for 2^53 - 1: above every timestamp of the model
KOLKATA_OFFSET_SECONDS == 19800
SECONDS_PER_DAY == 86400
SECONDS_PER_HOUR == 3600
MINUTES_PER_HOUR == 60
HALF_DAY_HOURS == 12

HasDatetime(task) == task.due # << >> /\ task.due[1].datetime # << >>
DatetimeOf(task) == task.due[1].datetime[1]

RECURSIVE Join(_, _)
Join(strs, sep) ==
    IF strs = << >> THEN ""
    ELSE IF Len(strs) = 1 THEN strs[1]
    ELSE strs[1] \o sep \o Join(Tail(strs), sep)

PRIORITY_LABELS == [p \in {4, 3, 2} |-> CASE p = 4 -> "P1" [] p = 3 -> "P2" [] p = 2 -> "P3"]

\* task.priority: << >> when the task carries none
priorityOf(t) == IF "priority" \in DOMAIN t THEN <<t.priority>> ELSE << >>

\* PRIORITY_LABELS[priority] ?? '', priority being optional
getPriorityLabel(priority) ==
    IF priority # << >> /\ priority[1] \in DOMAIN PRIORITY_LABELS
    THEN PRIORITY_LABELS[priority[1]] ELSE ""

\* formatDuration without the omission of zero minutes
formatDurationKeepZeroMinutes(d) ==
    IF d = << >> THEN ""
    ELSE IF d[1].unit = "day" THEN ToString(d[1].amount) \o "d"
    ELSE LET hours == d[1].amount \div MINUTES_PER_HOUR
             minutes == d[1].amount % MINUTES_PER_HOUR
         IN  IF hours = 0 THEN ToString(minutes) \o "m"
             ELSE ToString(hours) \o "h" \o ToString(minutes) \o "m"

formatDuration(d) ==
    IF d = << >> THEN ""
    ELSE IF d[1].unit = "day" THEN ToString(d[1].amount) \o "d"
    ELSE LET hours == d[1].amount \div MINUTES_PER_HOUR
             minutes == d[1].amount % MINUTES_PER_HOUR
         IN  IF hours = 0 THEN ToString(minutes) \o "m"
             ELSE IF minutes = 0 THEN ToString(hours) \o "h"
             ELSE ToString(hours) \o "h" \o ToString(minutes) \o "m"

TwoDigit(n) == IF n < 10 THEN "0" \o ToString(n) ELSE ToString(n)

\* toLocaleTimeString('en-GB', 2-digit hour and minute, 24 h, Asia/Kolkata)
formatTime(datetime) ==
    LET local == (datetime + KOLKATA_OFFSET_SECONDS) % SECONDS_PER_DAY
    IN  TwoDigit(local \div SECONDS_PER_HOUR) \o ":"
            \o TwoDigit((local % SECONDS_PER_HOUR) \div MINUTES_PER_HOUR)

getTaskSortKey(task) ==
    IF HasDatetime(task) THEN DatetimeOf(task) * MS_PER_SECOND ELSE MAX_SAFE_INTEGER

compareTasks(a, b) == getTaskSortKey(a) - getTaskSortKey(b)

\* InsertSorted of a sort that is not stable: an element goes before its equals
RECURSIVE InsertSortedUnstable(_, _)
InsertSortedUnstable(sorted, t) ==
    IF sorted = << >> THEN <<t>>
    ELSE LET n == Len(sorted)
         IN  IF compareTasks(sorted[n], t) < 0 THEN Append(sorted, t)
             ELSE Append(InsertSortedUnstable(SubSeq(sorted, 1, n - 1), t), sorted[n])

\* Array.prototype.sort is stable: an element goes after the elements that
\* do not compare greater than it
RECURSIVE InsertSorted(_, _)
InsertSorted(sorted, t) ==
    IF sorted = << >> THEN <<t>>
    ELSE LET n == Len(sorted)
         IN  IF compareTasks(sorted[n], t) <= 0 THEN Append(sorted, t)
             ELSE Append(InsertSorted(SubSeq(sorted, 1, n - 1), t), sorted[n])

RECURSIVE sortTasksBySchedule(_)
sortTasksBySchedule(tasks) ==
    IF tasks = << >> THEN << >>
    ELSE LET n == Len(tasks)
         IN  InsertSorted(sortTasksBySchedule(SubSeq(tasks, 1, n - 1)), tasks[n])

WordChars ==
    LET w == "abcdefghijklmnopqrstuvwxyzABCDEFGHIJKLMNOPQRSTUVWXYZ0123456789_"
    IN  {Char(w, i) : i \in 1..Len(w)}
IsSpace(c) == c \in {" ", "\t", "\n"}

\* one past the run of word characters starting at i
RECURSIVE WordEnd(_, _)
WordEnd(s, i) ==
    IF i <= Len(s) /\ Char(s, i) \in WordChars THEN WordEnd(s, i + 1) ELSE i

\* content.replace(/@\w+/g, '')
RECURSIVE RemoveLabels(_, _)
RemoveLabels(s, i) ==
    IF i > Len(s) THEN ""
    ELSE IF Char(s, i) = "@" /\ WordEnd(s, i + 1) > i + 1
         THEN RemoveLabels(s, WordEnd(s, i + 1))
    ELSE Char(s, i) \o RemoveLabels(s, i + 1)

\* .replace(/\s+/g, ' ')
RECURSIVE CollapseSpaces(_, _)
CollapseSpaces(s, i) ==
    IF i > Len(s) THEN ""
    ELSE IF IsSpace(Char(s, i))
         THEN (IF i > 1 /\ IsSpace(Char(s, i - 1)) THEN "" ELSE " ")
                  \o CollapseSpaces(s, i + 1)
    ELSE Char(s, i) \o CollapseSpaces(s, i + 1)

\* .trim(), of a string whose whitespace runs are single spaces
Trim(s) ==
    LET from == IF Len(s) > 0 /\ Char(s, 1) = " " THEN 2 ELSE 1
        to == IF Len(s) > 0 /\ Char(s, Len(s)) = " " THEN Len(s) - 1 ELSE Len(s)
    IN  SubSeq(s, from, to)

stripLabels(content) == Trim(CollapseSpaces(RemoveLabels(content, 1), 1))

\* index is the 0-based position of the task in the rendered list
formatActiveTask(task, index) ==
    LET time == IF HasDatetime(task)
                THEN "'" \o formatTime(DatetimeOf(task)) \o "' " ELSE ""
        dur == formatDuration(task.duration)
        priority == getPriorityLabel(priorityOf(task))
        content == stripLabels(task.content)
        meta == (IF dur # "" THEN <<dur>> ELSE << >>)
                    \o (IF priority # "" THEN <<priority>> ELSE << >>)
        metaStr == IF Len(meta) > 0 THEN " - _" \o Join(meta, " . ") \o "_" ELSE ""
    IN  ToString(index + 1) \o ". " \o time \o content \o metaStr

formatCompletedTask(task, index) ==
    LET completedTime == formatTime(task.completed_at)
        content == stripLabels(task.content)
    IN  ToString(index + 1) \o ". ~" \o content \o "~ - _done " \o completedTime \o "_"

\* getPriorityEmoji of the earlier variant: a coloured circle for every
\* priority, the white one by default
getPriorityEmoji(priority) ==
    CASE priority = <<4>> -> "(red)"
      [] priority = <<3>> -> "(orange)"
      [] priority = <<2>> -> "(blue)"
      [] OTHER -> "(white)"

\* toLocaleTimeString('en-US', numeric hour, 2-digit minute), 12 h clock, UTC
formatTimeUS(datetime) ==
    LET local == datetime % SECONDS_PER_DAY
        hour == local \div SECONDS_PER_HOUR
        hour12 == IF hour % HALF_DAY_HOURS = 0 THEN HALF_DAY_HOURS
                  ELSE hour % HALF_DAY_HOURS
    IN  ToString(hour12) \o ":"
            \o TwoDigit((local % SECONDS_PER_HOUR) \div MINUTES_PER_HOUR)
            \o (IF hour < HALF_DAY_HOURS THEN " AM" ELSE " PM")

\* the callback of tasks.map in the earlier variant's formatTasksForSlack
formatTaskLine(task) ==
    LET priority == getPriorityEmoji(priorityOf(task))
        dueTime == IF HasDatetime(task)
                   THEN " _(" \o formatTimeUS(DatetimeOf(task)) \o ")_" ELSE ""
    IN  priority \o " " \o task.content \o dueTime

Section(text) == [type |-> "section", text |-> [type |-> "mrkdwn", text |-> text]]
Divider == [type |-> "divider"]
Footer ==
    [type |-> "context",
     elements |-> <<[type |-> "mrkdwn", text |-> "_Fetched from Todoist_"]>>]

NoTasksText == "No tasks for today!"

\* the active tasks in the order the message shows them
allActive(active) ==
    LET sortedTasks == sortTasksBySchedule(active)
        NotScheduled(t) == ~HasDatetime(t)
        scheduled == SelectSeq(sortedTasks, HasDatetime)
        unscheduled == SelectSeq(sortedTasks, NotScheduled)
    IN  scheduled \o unscheduled

taskLines(active) ==
    LET shown == allActive(active)
    IN  [i \in 1..Len(shown) |-> formatActiveTask(shown[i], i - 1)]

completedLines(completed) ==
    [i \in 1..Len(completed) |-> formatCompletedTask(completed[i], i - 1)]

summaryText(d) ==
    LET shown == allActive(d.active)
    IN  "Today's Tasks (" \o ToString(Len(d.active)) \o " pending, "
            \o ToString(Len(d.completed)) \o " done): "
            \o Join([i \in 1..Len(shown) |-> shown[i].content], ", ")

\* IsEmptyInput looking at the active tasks alone
IsEmptyActiveOnly(d) == Len(d.active) = 0

IsEmptyInput(d) == Len(d.active) = 0 /\ Len(d.completed) = 0

formatTasksForSlack(d) ==
    LET totalActive == Len(d.active)
        totalCompleted == Len(d.completed)
        headerParts ==
            (IF totalActive > 0 THEN <<ToString(totalActive) \o " pending">> ELSE << >>)
                \o (IF totalCompleted > 0
                    THEN <<ToString(totalCompleted) \o " done">> ELSE << >>)
        header == Section(":clipboard: *Today's Tasks* (" \o Join(headerParts, ", ") \o ")")
        activeBlocks ==
            IF totalActive > 0 THEN <<Section(Join(taskLines(d.active), "\n"))>> ELSE << >>
        completedBlocks ==
            IF Len(d.completed) > 0
            THEN (IF totalActive > 0 THEN <<Divider>> ELSE << >>)
                     \o <<Section(Join(completedLines(d.completed), "\n"))>>
            ELSE << >>
    IN  IF IsEmptyInput(d)
        THEN [response_type |-> "ephemeral",
              text |-> NoTasksText,
              blocks |-> <<Section("*No tasks for today!*\nEnjoy your free time or add some tasks in Todoist.")>>]
        ELSE [response_type |-> "ephemeral",
              text |-> summaryText(d),
              blocks |-> <<header>> \o activeBlocks \o completedBlocks \o <<Footer>>]

---------------------------------------------------------------------------
(* Request and response envelopes *)

HTTP_OK == 200
HTTP_UNAUTHORIZED == 401
HTTP_SERVER_ERROR == 500

\* the body is the JSON document that JSON.stringify writes
jsonResponse(statusCode, body) ==
    [statusCode |-> statusCode,
     headers |-> ("Content-Type" :> "application/json"),
     body |-> body]

slackErrorResponse(text) ==
    jsonResponse(HTTP_OK, [response_type |-> "ephemeral", text |-> text])

ContactAddress == "anil@beneathatree.com"
AccessDeniedText ==
    ":lock: This is a test app by Anil. Please reach out to " \o ContactAddress
        \o " if you need access."
FetchErrorText == "Sorry, there was an error fetching your tasks. Please try again later."

configErrorResponse == jsonResponse(HTTP_SERVER_ERROR, [text |-> "Server configuration error"])
invalidSignatureResponse == jsonResponse(HTTP_UNAUTHORIZED, [text |-> "Invalid request signature"])
accessDeniedResponse == slackErrorResponse(AccessDeniedText)
fetchErrorResponse == slackErrorResponse(FetchErrorText)

\* obj[key] of a JavaScript object: << >> when the key is absent
Lookup(obj, key) == IF key \in DOMAIN obj THEN <<obj[key]>> ELSE << >>

\* !value, of an optional string
Falsy(opt) == opt = << >> \/ opt[1] = ""

\* Base64 is symbolic: an injective wrapping, and text that is no encoding
\* decodes to rubbish
Base64Prefix == "base64("
Base64Encode(s) == IF s = "" THEN "" ELSE Base64Prefix \o s \o ")"
Base64Decode(x) ==
    LET n == Len(Base64Prefix)
    IN  IF Len(x) > n /\ SubSeq(x, 1, n) = Base64Prefix /\ Char(x, Len(x)) = ")"
        THEN SubSeq(x, n + 1, Len(x) - 1)
        ELSE "?"

getRequestBody(e) ==
    LET body == IF e.body = << >> THEN "" ELSE e.body[1]
    IN  IF e.isBase64Encoded /\ body # "" THEN Base64Decode(body) ELSE body

\* Object.fromEntries: a later entry of the same key replaces an earlier one
RECURSIVE fromEntries(_)
fromEntries(entries) ==
    IF entries = << >> THEN [k \in {} |-> ""]
    ELSE LET n == Len(entries)
             before == fromEntries(SubSeq(entries, 1, n - 1))
         IN  [k \in DOMAIN before \cup {entries[n][1]} |->
                 IF k = entries[n][1] THEN entries[n][2] ELSE before[k]]

\* new URLSearchParams(body), of a body without percent escapes
URLSearchParams(body) ==
    LET NonEmpty(seg) == seg # ""
        segments == SelectSeq(Split(body, "&"), NonEmpty)
        Entry(seg) ==
            LET k == IndexOf(seg, "=", 1)
            IN  IF k = 0 THEN <<seg, "">>
                ELSE <<SubSeq(seg, 1, k - 1), SubSeq(seg, k + 1, Len(seg))>>
    IN  [i \in 1..Len(segments) |-> Entry(segments[i])]

parseSlackBody(body) == fromEntries(URLSearchParams(body))

\* includesUser letting a request without user_id through
includesUserOrAbsent(userId) == userId = << >> \/ userId[1] \in ALLOWED_USER_IDS

\* ALLOWED_USER_IDS.includes(userId), userId being optional
includesUser(userId) == userId # << >> /\ userId[1] \in ALLOWED_USER_IDS

---------------------------------------------------------------------------
(* handler, up to its first await *)

Respond(r) == [kind |-> "respond", response |-> <<r>>]
Reject == [kind |-> "throw", response |-> << >>]
Proceed == [kind |-> "fetch", response |-> << >>]

signatureOf(e) ==
    IF "x-slack-signature" \in DOMAIN e.headers
    THEN e.headers["x-slack-signature"] ELSE Plain("")

timestampOf(e) ==
    IF "x-slack-request-timestamp" \in DOMAIN e.headers
    THEN e.headers["x-slack-request-timestamp"] ELSE ""

IsConfigured(en) ==
    /\ ~Falsy(Lookup(en, "TODOIST_API_TOKEN"))
    /\ ~Falsy(Lookup(en, "SLACK_SIGNING_SECRET"))

\* the verdict of verifySlackSignature on the request, the secret being set
verdictOf(e, en, nowMs) ==
    verifySlackSignature(en["SLACK_SIGNING_SECRET"], signatureOf(e), timestampOf(e),
                         getRequestBody(e), nowMs)

userIdOf(e) == Lookup(parseSlackBody(getRequestBody(e)), "user_id")

handlerStart(e, en, nowMs) ==
    IF ~IsConfigured(en) THEN Respond(configErrorResponse)
    ELSE LET verdict == verdictOf(e, en, nowMs)
         IN  IF verdict.threw THEN Reject
             ELSE IF ~verdict.value THEN Respond(invalidSignatureResponse)
             ELSE IF ~includesUser(userIdOf(e)) THEN Respond(accessDeniedResponse)
             ELSE Proceed

---------------------------------------------------------------------------
(* Inputs of the handler *)

SlackSecret == "s1"      \* the secret Slack signs with
OtherSecret == "s2"
ApiToken == "tok"

Envs ==
    { [TODOIST_API_TOKEN |-> ApiToken, SLACK_SIGNING_SECRET |-> SlackSecret],
      [SLACK_SIGNING_SECRET |-> SlackSecret],
      [TODOIST_API_TOKEN |-> ApiToken],
      [TODOIST_API_TOKEN |-> ApiToken, SLACK_SIGNING_SECRET |-> ""] }

NowMsValues == {633999, 634000}

\* at the clock values above "333" is exactly 300 s old or 301 s old, "393"
\* is fresh, "999" lies in the future, "3a" parses as 3 and "a" as NaN
TimestampAlphabet == {"3", "9", "a"}
Timestamps == StringsUpTo(TimestampAlphabet, MaxTimestampLen)

RawBodies ==
    { "", "user_id=U6AHGJPPZ", "user_id=U0OTHER", "command=/today&text=",
      "command=/today&user_id=U6AHGJPPZ" }

\* the signature headers tried on a request with this timestamp and body:
\* signed by Slack, signed with another secret, signed for another body,
\* and literals of a shorter and of the same length as a signature
Signatures(timestamp, raw) ==
    { expectedSignature(SlackSecret, timestamp, raw),
      expectedSignature(OtherSecret, timestamp, raw),
      expectedSignature(SlackSecret, timestamp, raw \o "&x=1"),
      Plain("v0=abc"),
      Plain("v0=" \o Repeat("0", HEX_DIGEST_LENGTH)) }

Headers(sig, ts) ==
    [n \in (IF sig = << >> THEN {} ELSE {"x-slack-signature"})
             \cup (IF ts = << >> THEN {} ELSE {"x-slack-request-timestamp"}) |->
        IF n = "x-slack-signature" THEN sig[1] ELSE ts[1]]

\* the events API Gateway delivers: a Base64 body is flagged as one
Events ==
    LET Opt(S) == {<< >>} \cup {<<x>> : x \in S}
    IN  UNION { UNION { { [headers |-> Headers(sig, ts), body |-> <<raw>>,
                           isBase64Encoded |-> FALSE],
                          [headers |-> Headers(sig, ts), body |-> <<Base64Encode(raw)>>,
                           isBase64Encoded |-> raw # ""],
                          [headers |-> Headers(sig, ts), body |-> << >>,
                           isBase64Encoded |-> FALSE] }
                        : sig \in Opt(Signatures(IF ts = << >> THEN "" ELSE ts[1], raw)) }
                : ts \in Opt(Timestamps), raw \in RawBodies }

Project(id, name) == [id |-> id, name |-> name]
ProjectLists ==
    { << >>,
      <<Project("p1", "Inbox")>>,
      <<Project("p1", "Inbox"), Project("p2", "Work")>>,
      <<Project("p2", "Work"), Project("p3", "Work")>> }

Task(id, content, priority, due, dur) ==
    [id |-> id, content |-> content, priority |-> priority, due |-> due,
     duration |-> dur]
DateOnly == <<[datetime |-> << >>]>>
At(datetime) == <<[datetime |-> <<datetime>>]>>
Minutes(n) == <<[amount |-> n, unit |-> "minute"]>>
Days(n) == <<[amount |-> n, unit |-> "day"]>>
Completed(id, content, completedAt) ==
    [id |-> id, content |-> content, completed_at |-> completedAt]

\* 09:30:00 UTC is 15:00 in Kolkata
HandlerActiveLists ==
    { << >>,
      <<Task(1, "Review PR @dev", 4, At(34200), Minutes(90))>>,
      <<Task(1, "Inbox zero", 1, DateOnly, << >>),
        Task(2, "Standup", 3, At(16200), Minutes(15))>> }

HandlerCompletedLists ==
    { << >>, <<Completed(7, "Ship  release @ops", 30600)>> }

---------------------------------------------------------------------------
(* The handler as a state machine *)

NoResults == [workProjectId |-> << >>, active |-> << >>, completed |-> << >>]

Init ==
    /\ pc = "idle"
    /\ env \in Envs
    /\ event = << >>
    /\ now = 0
    /\ response = << >>
    /\ issued = << >>
    /\ inflight = {}
    /\ results = NoResults
    /\ failed = {}
    /\ data = << >>
    /\ slack = << >>
    /\ duration = << >>
    /\ rendered = << >>
    /\ taskIn = << >>
    /\ taskLine = << >>
    /\ emojiLine = << >>
    /\ calls = << >>

\* fetch(url): the request leaves and the caller waits for it
Issue(endpoints) ==
    /\ issued' = issued \o endpoints
    /\ inflight' = inflight \cup {endpoints[i] : i \in 1..Len(endpoints)}

\* the catch block of the handler
Catch ==
    /\ response' = <<fetchErrorResponse>>
    /\ pc' = "done"

\* the handler runs from its entry to its first await, return or throw
Invoke ==
    /\ pc = "idle"
    /\ \E e \in Events, nowMs \in NowMsValues :
        LET start == handlerStart(e, env, nowMs)
        IN  /\ event' = <<e>>
            /\ now' = nowMs
            /\ response' = start.response
            /\ pc' = CASE start.kind = "respond" -> "done"
                       [] start.kind = "throw" -> "crashed"
                       [] start.kind = "fetch" -> "awaitProjects"
            /\ IF start.kind = "fetch"
               THEN Issue(<<"projects">>)
               ELSE UNCHANGED <<issued, inflight>>
    /\ UNCHANGED <<env, results, failed>>
    /\ UNCHANGED pureVars

\* projects.find((p) => p.name === 'Work')?.id ?? null
workProjectIdOf(projects) ==
    LET IsWork(p) == p.name = "Work"
        found == SelectSeq(projects, IsWork)
    IN  IF found = << >> THEN << >> ELSE <<found[1].id>>

\* requestsAfterProjects asking for the completed tasks without a project id too
requestsAfterProjectsAlways(projectId) == <<"tasks", "completed">>

\* the requests Promise.all starts once the project is resolved:
\* fetchCompletedTodayTasks makes none without a project id
requestsAfterProjects(projectId) ==
    IF Falsy(projectId) THEN <<"tasks">> ELSE <<"tasks", "completed">>

\* GET /projects fails: not ok, or the transport or the JSON parse throws
ProjectsFail ==
    /\ pc = "awaitProjects"
    /\ "projects" \in inflight
    /\ inflight' = inflight \ {"projects"}
    /\ Catch
    /\ failed' = failed \cup {"projects"}
    /\ UNCHANGED <<env, event, now, issued, results>>
    /\ UNCHANGED pureVars

ProjectsOk(projects) ==
    /\ pc = "awaitProjects"
    /\ "projects" \in inflight
    /\ LET projectId == workProjectIdOf(projects)
           requests == requestsAfterProjects(projectId)
       IN  /\ issued' = issued \o requests
           /\ inflight' = (inflight \ {"projects"}) \cup {requests[i] : i \in 1..Len(requests)}
           /\ results' = [results EXCEPT
                  !.workProjectId = <<projectId>>,
                  !.completed = IF "completed" \in {requests[i] : i \in 1..Len(requests)}
                                THEN << >> ELSE << << >> >>]
    /\ pc' = "awaitBoth"
    /\ UNCHANGED <<env, event, now, response, failed>>
    /\ UNCHANGED pureVars

\* Settle answering as soon as the active tasks are there, the completed
\* tasks taken for none while their fetch is in flight
SettleOnActive(res) ==
    IF pc # "awaitBoth" THEN UNCHANGED <<pc, response>>
    ELSE IF res.active # << >>
    THEN /\ response' = <<jsonResponse(HTTP_OK,
                 formatTasksForSlack([active |-> res.active[1],
                                      completed |-> IF res.completed # << >>
                                                    THEN res.completed[1]
                                                    ELSE << >>]))>>
         /\ pc' = "done"
    ELSE UNCHANGED <<pc, response>>

\* Promise.all settles: it rejects with the first rejection, and resolves
\* when both promises have resolved
Settle(res) ==
    IF pc # "awaitBoth" THEN UNCHANGED <<pc, response>>
    ELSE IF res.active # << >> /\ res.completed # << >>
    THEN /\ response' = <<jsonResponse(HTTP_OK,
                 formatTasksForSlack([active |-> res.active[1],
                                      completed |-> res.completed[1]]))>>
         /\ pc' = "done"
    ELSE UNCHANGED <<pc, response>>

\* a rejection reaches the handler only while it still awaits Promise.all
Fail ==
    IF pc = "awaitBoth" THEN Catch ELSE UNCHANGED <<pc, response>>

TasksFail ==
    /\ "tasks" \in inflight
    /\ inflight' = inflight \ {"tasks"}
    /\ Fail
    /\ failed' = failed \cup {"tasks"}
    /\ UNCHANGED <<env, event, now, issued, results>>
    /\ UNCHANGED pureVars

TasksOk(tasks) ==
    /\ "tasks" \in inflight
    /\ inflight' = inflight \ {"tasks"}
    /\ results' = [results EXCEPT !.active = <<tasks>>]
    /\ Settle(results')
    /\ UNCHANGED <<env, event, now, issued, failed>>
    /\ UNCHANGED pureVars

\* CompletedFail taking a failed fetch of the completed tasks for an empty list
CompletedFailAsEmpty ==
    /\ "completed" \in inflight
    /\ inflight' = inflight \ {"completed"}
    /\ failed' = failed \cup {"completed"}
    /\ results' = [results EXCEPT !.completed = << << >> >>]
    /\ Settle(results')
    /\ UNCHANGED <<env, event, now, issued>>
    /\ UNCHANGED pureVars

CompletedFail ==
    /\ "completed" \in inflight
    /\ inflight' = inflight \ {"completed"}
    /\ Fail
    /\ failed' = failed \cup {"completed"}
    /\ UNCHANGED <<env, event, now, issued, results>>
    /\ UNCHANGED pureVars

CompletedOk(items) ==
    /\ "completed" \in inflight
    /\ inflight' = inflight \ {"completed"}
    /\ results' = [results EXCEPT !.completed = <<items>>]
    /\ Settle(results')
    /\ UNCHANGED <<env, event, now, issued, failed>>
    /\ UNCHANGED pureVars

Next ==
    \/ Invoke
    \/ ProjectsFail
    \/ \E projects \in ProjectLists : ProjectsOk(projects)
    \/ TasksFail
    \/ \E tasks \in HandlerActiveLists : TasksOk(tasks)
    \/ CompletedFail
    \/ \E items \in HandlerCompletedLists : CompletedOk(items)

Spec == Init /\ [][Next]_vars

---------------------------------------------------------------------------
(* The pure functions, applied to inputs drawn at the start *)

MaxActive == 3
MaxCompleted == 1
MaxAmount == 125
MaxPriority == 5
MaxCalls == 2

\* 09:30:00 UTC is 15:00 in Kolkata and 04:30:00 UTC is 10:00
ActiveVariants ==
    { Task(0, "Review PR @dev", 4, At(34200), Minutes(90)),
      Task(0, "Call  Ana", 1, At(34200), << >>),
      Task(0, "Standup", 3, At(16200), Days(2)),
      Task(0, "Inbox zero", 2, DateOnly, Minutes(60)),
      Task(0, "Read", 1, << >>, << >>) }

CompletedVariants ==
    { Completed(0, "Ship release @ops", 30600), Completed(0, "Deploy", 48600) }

\* the lists of at most n elements of S, the element at position i having id i
ListsUpTo(S, n) ==
    UNION { { [i \in 1..k |-> [f[i] EXCEPT !.id = i]] : f \in [1..k -> S] } : k \in 0..n }

TasksDataInputs ==
    { [active |-> a, completed |-> c] :
        a \in ListsUpTo(ActiveVariants, MaxActive),
        c \in ListsUpTo(CompletedVariants, MaxCompleted) }

DurationInputs ==
    {<< >>} \cup {Minutes(n) : n \in 0..MaxAmount} \cup {Days(n) : n \in 0..MaxAmount}

\* tasks of every priority from -1 to MaxPriority and without one, with and
\* without a due time and a duration
ActiveTaskInputs ==
    LET withPriority ==
            { Task(1, "Review PR @dev", p, due, dur) :
                p \in -1..MaxPriority,
                due \in {<< >>, At(34200)},
                dur \in {<< >>, Minutes(90), Minutes(0)} }
    IN  withPriority
            \cup { [id |-> t.id, content |-> t.content, due |-> t.due,
                    duration |-> t.duration] : t \in withPriority }

\* the state before the handler is invoked
HandlerIdle ==
    /\ pc = "idle"
    /\ env = [TODOIST_API_TOKEN |-> ApiToken, SLACK_SIGNING_SECRET |-> SlackSecret]
    /\ event = << >>
    /\ now = 0
    /\ response = << >>
    /\ issued = << >>
    /\ inflight = {}
    /\ results = NoResults
    /\ failed = {}

InitPure ==
    /\ HandlerIdle
    /\ slack = << >>
    /\ rendered = << >>
    /\ taskLine = << >>
    /\ emojiLine = << >>
    /\ calls = << >>
    /\ \/ data \in {<<d>> : d \in TasksDataInputs} /\ duration = << >> /\ taskIn = << >>
       \/ data = << >> /\ duration \in {<<d>> : d \in DurationInputs} /\ taskIn = << >>
       \/ data = << >> /\ duration = << >> /\ taskIn \in {<<t>> : t \in ActiveTaskInputs}

ApplyFormatTasks ==
    /\ data # << >>
    /\ slack = << >>
    /\ slack' = <<formatTasksForSlack(data[1])>>
    /\ UNCHANGED handlerVars
    /\ UNCHANGED <<data, duration, rendered, taskIn, taskLine, emojiLine, calls>>

ApplyFormatDuration ==
    /\ duration # << >>
    /\ rendered = << >>
    /\ rendered' = <<formatDuration(duration[1])>>
    /\ UNCHANGED handlerVars
    /\ UNCHANGED <<data, slack, duration, taskIn, taskLine, emojiLine, calls>>

\* the task is rendered as the first line of the list
ApplyFormatActiveTask ==
    /\ taskIn # << >>
    /\ taskLine = << >>
    /\ taskLine' = <<formatActiveTask(taskIn[1], 0)>>
    /\ UNCHANGED handlerVars
    /\ UNCHANGED <<data, slack, duration, rendered, taskIn, emojiLine, calls>>

\* the task is rendered by the emoji variant of the handler (today.ts)
ApplyFormatTaskLine ==
    /\ taskIn # << >>
    /\ emojiLine = << >>
    /\ emojiLine' = <<formatTaskLine(taskIn[1])>>
    /\ UNCHANGED handlerVars
    /\ UNCHANGED <<data, slack, duration, rendered, taskIn, taskLine, calls>>

NextPure ==
    \/ ApplyFormatTasks
    \/ ApplyFormatDuration
    \/ ApplyFormatActiveTask
    \/ ApplyFormatTaskLine

SpecPure == InitPure /\ [][NextPure]_vars

---------------------------------------------------------------------------
(* verifySlackSignature called repeatedly while the clock advances *)

\* Date.now() at the calls: two readings within one second, and the next second
VerifyClocks == {633000, 633999, 634000}

\* a timestamp 300 s old at the first two clock values and 301 s old at the
\* last, a fresh one, one in the future and one that is no number
VerifyTimestamps == {"333", "393", "939", "a3"}

VerifyBody == "user_id=U6AHGJPPZ"

\* signed by Slack, signed with another secret, and an empty header
VerifySignatures(timestamp) ==
    { expectedSignature(SlackSecret, timestamp, VerifyBody),
      expectedSignature(OtherSecret, timestamp, VerifyBody),
      Plain("") }

InitVerify ==
    /\ HandlerIdle
    /\ data = << >>
    /\ slack = << >>
    /\ duration = << >>
    /\ rendered = << >>
    /\ taskIn = << >>
    /\ taskLine = << >>
    /\ emojiLine = << >>
    /\ calls = << >>

\* one call of verifySlackSignature; it reads the clock, which never runs back
Verify ==
    /\ Len(calls) < MaxCalls
    /\ \E timestamp \in VerifyTimestamps, nowMs \in VerifyClocks :
         \E signature \in VerifySignatures(timestamp) :
            /\ calls # << >> => nowMs >= calls[Len(calls)].nowMs
            /\ calls' = Append(calls,
                  [signingSecret |-> SlackSecret,
                   signature |-> signature,
                   timestamp |-> timestamp,
                   body |-> VerifyBody,
                   nowMs |-> nowMs,
                   result |-> verifySlackSignature(SlackSecret, signature,
                                                   timestamp, VerifyBody, nowMs)])
    /\ UNCHANGED handlerVars
    /\ UNCHANGED <<data, slack, duration, rendered, taskIn, taskLine, emojiLine>>

NextVerify == Verify

SpecVerify == InitVerify /\ [][NextVerify]_vars

---------------------------------------------------------------------------
(* Properties of the handler *)

Invoked == event # << >>
Req == event[1]
Verdict == verdictOf(Req, env, now)
NotANumber == parseInt(timestampOf(Req)).nan
AgeSeconds == (now \div 1000) - parseInt(timestampOf(Req)).val
Body == response[1].body

\* sub occurs in s
Contains(s, sub) ==
    \E i \in 1..(Len(s) - Len(sub) + 1) : SubSeq(s, i, i + Len(sub) - 1) = sub

EndsWith(s, suffix) ==
    Len(suffix) <= Len(s) /\ SubSeq(s, Len(s) - Len(suffix) + 1, Len(s)) = suffix

Count(seq, x) == Cardinality({i \in 1..Len(seq) : seq[i] = x})

\* C1: with the secrets configured, a signature header whose length differs
\* from that of the expected 'v0=' + hex value (the empty string of a missing
\* header included) makes verifySlackSignature return false without an
\* exception, and the handler answers 401.
C1_LengthMismatchAnswers401 ==
    (/\ Invoked
     /\ IsConfigured(env)
     /\ ByteLength(signatureOf(Req)) # Len("v0=") + 64)
        => /\ Verdict = Returned(FALSE)
           /\ pc = "done"
           /\ response # << >>
           /\ response[1].statusCode = 401

\* C2: a timestamp that does not parse as an integer is never accepted by
\* verifySlackSignature, whatever the secret, the signature and the body,
\* the correct HMAC of "v0:" + timestamp + ":" + body included.
C2_UnparsableTimestampNeverAccepted ==
    (Invoked /\ IsConfigured(env) /\ NotANumber) => Verdict # Returned(TRUE)

\* C3: a request whose timestamp is more than 300 seconds older than the
\* clock read at verification is rejected by verifySlackSignature and
\* answered 401, also when its signature is the correct HMAC.
C3_StaleTimestampRejected ==
    (Invoked /\ IsConfigured(env) /\ ~NotANumber /\ AgeSeconds > 300)
        => /\ Verdict = Returned(FALSE)
           /\ pc = "done"
           /\ response # << >>
           /\ response[1].statusCode = 401
           /\ issued = << >>

C3_Witness ==
    /\ Invoked
    /\ IsConfigured(env)
    /\ ~NotANumber
    /\ AgeSeconds > 300
    /\ signatureOf(Req)
           = expectedSignature(SlackSecret, timestampOf(Req), getRequestBody(Req))
    /\ response # << >>
    /\ response[1].statusCode = 401

FreshTimestamp == ~NotANumber /\ AgeSeconds <= 300

SignedWithOtherSecret ==
    signatureOf(Req)
        = expectedSignature(OtherSecret, timestampOf(Req), getRequestBody(Req))

\* C4: with both secrets configured, a request with a fresh timestamp and a
\* signature computed under a different secret is answered 401 with the body
\* text "Invalid request signature" and nothing else, and no request to the
\* task service is issued.
C4_WrongSecretAnswers401 ==
    (Invoked /\ IsConfigured(env) /\ FreshTimestamp /\ SignedWithOtherSecret)
        => /\ pc = "done"
           /\ response # << >>
           /\ response[1].statusCode = 401
           /\ DOMAIN Body = {"text"}
           /\ Body.text = "Invalid request signature"
           /\ issued = << >>

C4_Witness ==
    /\ Invoked
    /\ IsConfigured(env)
    /\ FreshTimestamp
    /\ SignedWithOtherSecret
    /\ response # << >>
    /\ response[1].statusCode = 401

Verified == Invoked /\ IsConfigured(env) /\ Verdict = Returned(TRUE)

\* C5: a verified request whose user_id is absent or not in ALLOWED_USER_IDS
\* is answered 200, ephemeral, with a text that holds the contact address and
\* without blocks, and no request to the task service is issued.
C5_DeniedCallerAnswered200 ==
    (Verified /\ (userIdOf(Req) = << >> \/ userIdOf(Req)[1] \notin ALLOWED_USER_IDS))
        => /\ pc = "done"
           /\ response # << >>
           /\ response[1].statusCode = 200
           /\ Body.response_type = "ephemeral"
           /\ Contains(Body.text, "anil@beneathatree.com")
           /\ "blocks" \notin DOMAIN Body
           /\ issued = << >>

C5_Witness ==
    /\ Verified
    /\ userIdOf(Req) = << >>
    /\ response # << >>
    /\ response[1].statusCode = 200
    /\ "blocks" \notin DOMAIN Body

\* C6: no endpoint is requested more than once in an invocation, and once an
\* outbound call has failed the response is 200, ephemeral, the generic
\* "try again later" text and no blocks, whatever another call returned.
C6_FailureIsNotRetriedNorPartial ==
    /\ \A ep \in {"projects", "tasks", "completed"} : Count(issued, ep) <= 1
    /\ failed # {}
        => /\ pc = "done"
           /\ response # << >>
           /\ response[1].statusCode = 200
           /\ DOMAIN Body = {"response_type", "text"}
           /\ Body.response_type = "ephemeral"
           /\ Body.text
                  = "Sorry, there was an error fetching your tasks. Please try again later."

C6_Witness ==
    /\ "completed" \in failed
    /\ results.active # << >>
    /\ Len(results.active[1]) > 0
    /\ response # << >>
    /\ "blocks" \notin DOMAIN Body

---------------------------------------------------------------------------
(* Properties of the pure functions *)

Active == data[1].active
Shown == allActive(Active)
Message == slack[1]

SameSortKey(a, b) ==
    \/ ~HasDatetime(a) /\ ~HasDatetime(b)
    \/ HasDatetime(a) /\ HasDatetime(b) /\ DatetimeOf(a) = DatetimeOf(b)

\* C7: the rendered order of the active tasks holds every task once, places
\* the tasks with a due datetime before those without, has the due datetimes
\* in non-decreasing order, and keeps tasks of equal sort key in their
\* upstream order (the id of a task is its upstream position).
C7_RenderedOrder ==
    (slack # << >> /\ Len(Active) > 0)
        => LET shown == Shown
               n == Len(shown)
           IN  /\ Message.blocks[2].text.text
                      = Join([i \in 1..n |-> formatActiveTask(shown[i], i - 1)], "\n")
               /\ n = Len(Active)
               /\ {shown[i].id : i \in 1..n} = 1..Len(Active)
               /\ \A i, j \in 1..n :
                     i < j =>
                        /\ HasDatetime(shown[j]) => HasDatetime(shown[i])
                        /\ (HasDatetime(shown[i]) /\ HasDatetime(shown[j]))
                               => DatetimeOf(shown[i]) <= DatetimeOf(shown[j])
                        /\ SameSortKey(shown[i], shown[j]) => shown[i].id < shown[j].id

C7_Witness ==
    /\ slack # << >>
    /\ Len(Active) = 3
    /\ ~HasDatetime(Active[1])
    /\ HasDatetime(Active[2])
    /\ HasDatetime(Active[3])
    /\ DatetimeOf(Active[2]) = DatetimeOf(Active[3])
    /\ <<Shown[1].id, Shown[2].id, Shown[3].id>> = <<2, 3, 1>>

\* C8: formatTasksForSlack returns the "No tasks for today!" message exactly
\* when the active and the completed list are both empty, and its blocks are
\* never empty.
C8_NoTasksMessage ==
    slack # << >>
        => /\ (Message.text = "No tasks for today!")
                  <=> (Len(data[1].active) = 0 /\ Len(data[1].completed) = 0)
           /\ Len(Message.blocks) > 0

C8_Witness ==
    /\ slack # << >>
    /\ Len(data[1].active) = 0
    /\ Len(data[1].completed) = 0
    /\ Message.text = "No tasks for today!"
    /\ Len(Message.blocks) = 1

\* the one-line renderings of the tasks the blocks show, in their order
BlockLines == taskLines(data[1].active) \o completedLines(data[1].completed)

\* C9: for a non-empty input the text field is built by joining the one-line
\* rendering of every task the blocks show (active and completed), in the
\* order of the blocks.
C9_TextJoinsRenderedLines ==
    (slack # << >> /\ (Len(data[1].active) > 0 \/ Len(data[1].completed) > 0))
        => EndsWith(Message.text, Join(BlockLines, ", "))

\* the rendering "{h}h{m}m" of a number of minutes without its zero components
HoursMinutes(amount) ==
    LET h == amount \div 60
        m == amount % 60
    IN  (IF h > 0 THEN ToString(h) \o "h" ELSE "")
            \o (IF m > 0 THEN ToString(m) \o "m" ELSE "")

DurationIn == duration[1][1]
HasDurationResult == duration # << >> /\ duration[1] # << >> /\ rendered # << >>

\* C10, as stated: a duration in days renders as "{amount}d", and one in
\* minutes, of any amount >= 0, as hours and minutes with every zero
\* component omitted.
C10_ZeroComponentsOmitted ==
    HasDurationResult
        => IF DurationIn.unit = "day"
           THEN rendered[1] = ToString(DurationIn.amount) \o "d"
           ELSE rendered[1] = HoursMinutes(DurationIn.amount)

\* C10, amended: a duration in days renders as "{amount}d"; one in minutes
\* of a positive amount renders as hours and minutes with every zero
\* component omitted, and the amount 0 renders as "0m".
C10_ZeroComponentsOmittedWhenPositive ==
    HasDurationResult
        => IF DurationIn.unit = "day"
           THEN rendered[1] = ToString(DurationIn.amount) \o "d"
           ELSE IF DurationIn.amount > 0
           THEN rendered[1] = HoursMinutes(DurationIn.amount)
           ELSE rendered[1] = "0m"

C10_Witness ==
    /\ HasDurationResult
    /\ DurationIn = [amount |-> 90, unit |-> "minute"]
    /\ rendered = <<"1h30m">>

\* the text of the task line after the task's content
LineTail ==
    LET l == taskLine[1]
        k == Len("1. ") + (IF HasDatetime(taskIn[1]) THEN Len("'15:00' ") ELSE 0)
                 + Len("Review PR")
    IN  SubSeq(l, k + 1, Len(l))

\* the priority of the rendered task, 0 standing for an absent one
RenderedPriority ==
    IF "priority" \in DOMAIN taskIn[1] THEN taskIn[1].priority ELSE 0

\* the line of the current variant: the label of priority 4, 3 or 2 is the
\* last item of the annotations, and any other priority adds nothing
LabelInLine ==
    taskLine # << >>
        => LET t == taskIn[1]
               dur == IF t.duration = << >> THEN ""
                      ELSE IF t.duration[1].amount = 90 THEN "1h30m" ELSE "0m"
               marker == CASE RenderedPriority = 4 -> "P1"
                           [] RenderedPriority = 3 -> "P2"
                           [] RenderedPriority = 2 -> "P3"
                           [] OTHER -> ""
           IN  LineTail =
                  IF dur = "" /\ marker = "" THEN ""
                  ELSE IF marker = "" THEN " - _" \o dur \o "_"
                  ELSE IF dur = "" THEN " - _" \o marker \o "_"
                  ELSE " - _" \o dur \o " . " \o marker \o "_"

\* the line of the emoji variant: the circle of priority 4, 3 or 2 comes
\* first, and any other priority adds nothing before the content
EmojiInLine ==
    emojiLine # << >>
        => LET t == taskIn[1]
               rest == t.content \o (IF HasDatetime(t) THEN " _(9:30 AM)_" ELSE "")
           IN  emojiLine[1] =
                  CASE RenderedPriority = 4 -> "(red) " \o rest
                    [] RenderedPriority = 3 -> "(orange) " \o rest
                    [] RenderedPriority = 2 -> "(blue) " \o rest
                    [] OTHER -> rest

\* C11: the line of a task of priority 4 carries the P1-equivalent label, of
\* priority 3 the P2-equivalent and of priority 2 the P3-equivalent; the line
\* of a task of any other priority (1, 0, 5, negative) or of none carries no
\* priority marker at all, in the variant with labels and in the one with
\* emoji.
C11_PriorityMarkerInLine == LabelInLine /\ EmojiInLine

\* two calls were given the same secret, signature, timestamp and body
SameArguments(a, b) ==
    /\ a.signingSecret = b.signingSecret
    /\ a.signature = b.signature
    /\ a.timestamp = b.timestamp
    /\ a.body = b.body

\* C12 as stated: any two calls of verifySlackSignature with the same secret,
\* signature, timestamp and body return the same boolean, whenever each call
\* is made.
C12_SameArgumentsSameResult ==
    \A i, j \in 1..Len(calls) :
        SameArguments(calls[i], calls[j]) => calls[i].result = calls[j].result

\* C12 amended: the result also depends on the clock the call reads, floored
\* to the second; two calls with the same arguments that read the clock
\* within the same second end alike (both true, both false, or both throw),
\* and of two calls with the same arguments in different seconds only the
\* earlier one can be the one that is accepted.
C12_SameArgumentsSameSecondSameResult ==
    \A i, j \in 1..Len(calls) :
        SameArguments(calls[i], calls[j])
            => /\ calls[i].nowMs \div MS_PER_SECOND = calls[j].nowMs \div MS_PER_SECOND
                    => calls[i].result = calls[j].result
               /\ calls[i].nowMs <= calls[j].nowMs /\ calls[j].result = Returned(TRUE)
                    => calls[i].result = Returned(TRUE)

\* a signed request 300 s old is accepted twice at two instants of one second
C12_Witness ==
    /\ Len(calls) = 2
    /\ SameArguments(calls[1], calls[2])
    /\ calls[1].timestamp = "333"
    /\ calls[1].nowMs = 633000
    /\ calls[2].nowMs = 633999
    /\ calls[1].result = Returned(TRUE)
    /\ calls[2].result = Returned(TRUE)

---------------------------------------------------------------------------
(* Order of the handler's checks *)

SignedBySlack ==
    signatureOf(Req)
        = expectedSignature(env["SLACK_SIGNING_SECRET"], timestampOf(Req),
                            getRequestBody(Req))

\* the signature is not the expected HMAC, or the timestamp is too old
InvalidSignature == ~SignedBySlack \/ (~NotANumber /\ AgeSeconds > 300)

AllowedCaller == userIdOf(Req) # << >> /\ userIdOf(Req)[1] \in ALLOWED_USER_IDS

\* C13: the first failing check decides the response, in the order
\* configuration, signature, allow-list, upstream fetch: a missing secret is
\* answered 500 "Server configuration error" whatever the signature and the
\* caller, an invalid signature is answered 401 whatever the caller, and an
\* outbound call is issued only when all three checks passed.
C13_FirstFailingCheckDecides ==
    Invoked
        => /\ ~IsConfigured(env)
                => /\ pc = "done"
                   /\ response # << >>
                   /\ response[1].statusCode = 500
                   /\ Body.text = "Server configuration error"
                   /\ issued = << >>
           /\ IsConfigured(env) /\ InvalidSignature
                => /\ pc = "done"
                   /\ response # << >>
                   /\ response[1].statusCode = 401
                   /\ issued = << >>
           /\ issued # << >>
                => IsConfigured(env) /\ ~InvalidSignature /\ AllowedCaller

---------------------------------------------------------------------------
(* The two fetches awaited together *)

BothIssued == Count(issued, "tasks") = 1 /\ Count(issued, "completed") = 1
PairInFlight == inflight \cap {"tasks", "completed"}
PairFailed == failed \cap {"tasks", "completed"}

\* C14 as stated: once the fetch of the active tasks and the fetch of the
\* completed tasks have both been issued, a response is produced only after
\* both calls have completed: never while one of them is in flight, the case
\* where the other call has already failed included.
C14_ResponseAfterBothCompleted ==
    (BothIssued /\ response # << >>) => PairInFlight = {}

\* C14 amended: with both fetches issued, the handler answers at the first
\* failure or when both calls have succeeded, whichever comes first.  A
\* response with the tasks is produced only after both calls completed with
\* success; the error response is produced as soon as one call fails, also
\* while the other call is still in flight; and there is no response as long
\* as no call has failed and one is in flight.
C14_ResponseAtFirstFailureOrBothDone ==
    BothIssued
        => /\ response = << >> <=> (PairFailed = {} /\ PairInFlight # {})
           /\ (response # << >> /\ PairFailed = {})
                => /\ PairInFlight = {}
                   /\ results.active # << >> /\ results.completed # << >>
                   /\ response[1].statusCode = 200
                   /\ "blocks" \in DOMAIN Body
           /\ PairFailed # {} => response = <<fetchErrorResponse>>

\* the fetch of the active tasks has failed and the error response is out
\* while the fetch of the completed tasks is still in flight
C14_Witness ==
    /\ BothIssued
    /\ "tasks" \in failed
    /\ "completed" \in inflight
    /\ response = <<fetchErrorResponse>>

Authorized == Verified /\ AllowedCaller

\* C15: the fetch of the active tasks does not wait for the project lookup:
\* it is issued in every authorized invocation, at once and whatever the
\* outcome of the project lookup.
C15_ActiveFetchIssuedWithoutWaiting ==
    Authorized => Count(issued, "tasks") = 1

---------------------------------------------------------------------------
(* No project named Work *)

\* the project list arrived and holds no project named Work
ProjectMissing == results.workProjectId = << << >> >>

\* C16: when the project list is fetched and holds no project named Work, no
\* request for the completed tasks is issued and their list is empty; once
\* the active tasks have arrived the handler answers 200 with the message of
\* the active tasks alone (the "No tasks for today!" message when there are
\* none), and the error response is given only when the fetch of the active
\* tasks failed.
C16_MissingProjectIsNotAnError ==
    ProjectMissing
        => /\ Count(issued, "completed") = 0
           /\ results.completed = << << >> >>
           /\ "projects" \notin failed
           /\ results.active # << >>
                => LET active == results.active[1]
                   IN  /\ pc = "done"
                       /\ response # << >>
                       /\ response[1].statusCode = 200
                       /\ Body = formatTasksForSlack([active |-> active,
                                                      completed |-> << >>])
                       /\ Len(active) = 0 => Body.text = "No tasks for today!"
                       /\ Len(active) > 0
                            => /\ Body.blocks[1].text.text
                                      = ":clipboard: *Today's Tasks* ("
                                            \o ToString(Len(active)) \o " pending)"
                               /\ Len(Body.blocks) = 3
           /\ (response # << >> /\ response = <<fetchErrorResponse>>)
                => "tasks" \in failed
           /\ response = << >> <=> "tasks" \in inflight

\* no Work project and no active task: the handler answers "No tasks for today!"
C16_Witness ==
    /\ ProjectMissing
    /\ results.active = << << >> >>
    /\ issued = <<"projects", "tasks">>
    /\ response # << >>
    /\ response[1].statusCode = 200
    /\ Body.text = "No tasks for today!"

---------------------------------------------------------------------------
(* Freshness is bounded from below only *)

\* C17: a request whose timestamp is exactly 300 seconds old, or younger, or
\* lies in the future of the clock read at verification, passes the freshness
\* check: verifySlackSignature accepts it if and only if its signature is the
\* expected HMAC value.
C17_FreshOrFutureAcceptedIffSigned ==
    (Invoked /\ IsConfigured(env) /\ ~NotANumber /\ AgeSeconds <= 300)
        => /\ ~IsStale(timestampOf(Req), now)
           /\ Verdict = Returned(TRUE) <=> SignedBySlack
           /\ SignedBySlack => (pc # "crashed" /\ (response # << >> => response[1].statusCode = 200))

\* a signed request exactly 300 seconds old is accepted
C17_Witness ==
    /\ Invoked
    /\ IsConfigured(env)
    /\ ~NotANumber
    /\ AgeSeconds = 300
    /\ SignedBySlack
    /\ Verdict = Returned(TRUE)
    /\ issued # << >>

=============================================================================
